---------------------------- MODULE Spec2Model ----------------------------
(***************************************************************************)
(* django-mama-cas (isoft-linux fork): the CAS views of mama_cas/views.py  *)
(* as a state machine over the ticket store, one browser's SSO session and *)
(* the concurrent validation requests of relying services.                 *)
(*                                                                         *)
(* views.py is modelled from its code.  The functions it imports from      *)
(* mama_cas.cas, mama_cas.models, mama_cas.forms and mama_cas.utils are    *)
(* not part of the sources at hand; they are modelled from the written     *)
(* specification (TicketAuthority, ServiceRegistry, IdentityStore) and     *)
(* from the docstrings of the views that call them.                        *)
(***************************************************************************)
EXTENDS Naturals, Sequences, FiniteSets, TLC

\* ------------------------------------------------------------------ bounds
\* Greatest number of tickets the store holds in a run of the login views.
MaxIssued == 2
\* Greatest number of tickets the store holds in a run of the validation views.
MaxValidated == 3
\* Number of validation requests that can be in flight at once.
NumWorkers == 2
\* Greatest number of tickets in the store while federated logins are explored.
MaxFederated == 1
\* Greatest number of tickets in the store while proxy chains are explored.
MaxChain == 5

\* ------------------------------------------------------------- the domain
\* None: a request parameter that is absent (request.GET.get(...) is None).
None == "None"
\* The local accounts of the identity store and their passwords.
Users == {"alice", "bob"}
NoUser == "anonymous"
Password == [u \in Users |-> IF u = "alice" THEN "pw1" ELSE "pw2"]
\* Names and passwords a client may type into the login form.
TypedNames == Users \cup {"mallory"}
TypedPasswords == {"pw1", "pw2"}
\* Service URLs: svcA and svcB are allowed by the service registry, svcX is not.
ValidServices == {"svcA", "svcB"}
Services == ValidServices \cup {"svcX"}
\* Proxy callback URLs: a verified https endpoint, an https endpoint that does
\* not answer with success, and a plain http endpoint.
PgtUrls == {"https-ok", "https-down", "http"}

\* Ticket kinds and their token prefixes (ServiceTicket.TICKET_PREFIX, ...).
STPrefix == "ST"
PTPrefix == "PT"
PGTPrefix == "PGT"
Prefixes == {STPrefix, PTPrefix, PGTPrefix}
\* A token is its kind's prefix followed by a unique random part; the random
\* part is modelled by the position of the ticket in the store.
Token(prefix, n) == <<prefix, n>>
NoTicket == <<"", 0>>

\* View names used in redirects (django reverse()).
CasLogin == "cas_login"
CasWarn == "cas_warn"

VARIABLES tickets, session, settings, last, workers, accounts

vars == <<tickets, session, settings, last, workers, accounts>>


\* ----------------------------------------------------- external services
\* ServiceRegistry.isAllowed: mama_cas.utils.is_valid_service.
is_valid_service(service) == service \in ValidServices

\* IdentityStore.authenticate, as LoginForm.clean uses it: the account whose
\* name and password were typed, or NoUser.
authenticate(username, password) ==
    IF username \in Users /\ Password[username] = password THEN username ELSE NoUser

\* Python truthiness of a request parameter: None and '' are false.
Truthy(v) == v # None /\ v # ""

\* ------------------------------------------------------------ the tickets
\* One row of the ticket tables.  parent is the position of the ticket that
\* granted this one (granted_by_st / granted_by_pt / granted_by_pgt), 0 for none.
NewTicket(kind, service, user, primary, parent) ==
    [kind |-> kind, service |-> service, user |-> user, primary |-> primary,
     consumed |-> FALSE, expired |-> FALSE, parent |-> parent]

\* The token of the ticket at position n of the store.
TokenOf(store, n) == Token(store[n].kind, n)

\* TicketAuthority.issue: the manager's create_ticket appends a fresh row with
\* a token no other ticket has and returns it.
create_ticket(store, kind, service, user, primary, parent) ==
    Append(store, NewTicket(kind, service, user, primary, parent))

\* issue_allowed with no question asked of the registry.
issue_allowed_Any(service) == TRUE

\* TicketAuthority.issue rejects a service the registry does not allow.
issue_allowed(service) == is_valid_service(service)

\* ---------------------------------------------------------- the responses
\* An HTTP response: a rendered form, a redirect (to a service URL or to a
\* named view) with its query parameters, or a body.
Resp(kind, to, service, ticket, body) ==
    [kind |-> kind, to |-> to, service |-> service, ticket |-> ticket, body |-> body]

\* mama_cas.utils.redirect(to, params={...}).
redirect(to, service, ticket) == Resp("redirect", to, service, ticket, "")

\* FormView.get / form_invalid: the login form is rendered; body tells whether
\* a "logged in as" message or a form error accompanies it.
RenderForm(note) == Resp("form", "", None, NoTicket, note)

\* The ticket-issuing call raised: the request ends without a response of the view.
Rejected == Resp("error", "", None, NoTicket, "")

\* What the last handled request was: the view, its parameters, its response.
Done(view, req, resp) == [view |-> view, req |-> req, resp |-> resp]

NoRequest == [view |-> "none"]

\* ---------------------------------------------------------------- /login
\* LoginView.get, lines 91-93: the service parameter, or the configured default.
LoginService(serviceParam) ==
    IF serviceParam = None THEN settings.DEFAULT_SERVICE ELSE serviceParam

\* LoginBranch with the renew test lost: an existing session is honoured.
LoginBranch_IgnoresRenew(renew, gateway, service, authenticated) ==
    IF gateway /\ Truthy(service)
    THEN IF authenticated THEN "issue" ELSE "redirect_unauthenticated"
    ELSE IF authenticated
         THEN IF Truthy(service) THEN "issue" ELSE "status"
    ELSE "challenge"

\* LoginBranch with the gateway branch not asking whether a session exists.
LoginBranch_GatewayIssues(renew, gateway, service, authenticated) ==
    IF renew THEN "challenge"
    ELSE IF gateway /\ Truthy(service) THEN "issue"
    ELSE IF authenticated
         THEN IF Truthy(service) THEN "issue" ELSE "status"
    ELSE "challenge"

\* LoginView.get, lines 98-121: which branch of the credential requestor runs.
LoginBranch(renew, gateway, service, authenticated) ==
    IF renew THEN "challenge"
    ELSE IF gateway /\ Truthy(service)
         THEN IF authenticated THEN "issue" ELSE "redirect_unauthenticated"
    ELSE IF authenticated
         THEN IF Truthy(service) THEN "issue" ELSE "status"
    ELSE "challenge"

\* warn_user reading a key the session never holds.
warn_user_Never(sess) == FALSE

\* LoginView.warn_user: the session's warn flag.
warn_user(sess) == sess.warn

\* request.user.is_authenticated()
is_authenticated(sess) == sess.user # NoUser

\* IssueRedirect without the ticket parameter on the redirect to the service.
IssueRedirect_DropsTicket(sess, service, st) ==
    IF warn_user(sess) THEN redirect(CasWarn, service, st)
    ELSE redirect(service, None, NoTicket)

\* LoginView.get, lines 103-107 and 113-117: the redirect after a transparent
\* issuance of ticket st for service.
IssueRedirect(sess, service, st) ==
    IF warn_user(sess) THEN redirect(CasWarn, service, st)
    ELSE redirect(service, None, st)

\* The primary flag create_ticket gives a ticket when the view passes none.
DefaultPrimary == FALSE

\* GET /login?service=..&renew=..&gateway=..
LoginGet(serviceParam, renew, gateway) ==
    LET service == LoginService(serviceParam)
        branch == LoginBranch(renew, gateway, service, is_authenticated(session))
        req == [service |-> serviceParam, renew |-> renew, gateway |-> gateway]
    IN  /\ IF branch = "issue" /\ issue_allowed(service)
           THEN LET store == create_ticket(tickets, STPrefix, service, session.user, DefaultPrimary, 0)
                    st == TokenOf(store, Len(store))
                IN  /\ tickets' = store
                    /\ last' = Done("login_get", req, IssueRedirect(session, service, st))
           ELSE /\ UNCHANGED tickets
                /\ last' = Done("login_get", req,
                                CASE branch = "issue" -> Rejected
                                  [] branch = "redirect_unauthenticated" -> redirect(service, None, NoTicket)
                                  [] branch = "status" -> RenderForm("logged_in")
                                  [] OTHER -> RenderForm(""))
        /\ UNCHANGED <<session, settings, workers, accounts>>

\* django.contrib.auth.login(request, user): a session that belongs to another
\* user is flushed; an anonymous session or one of the same user keeps its data
\* (only its key is cycled); then the user is recorded in it.
login(sess, user) ==
    IF sess.user # NoUser /\ sess.user # user
    THEN [user |-> user, warn |-> FALSE]
    ELSE [sess EXCEPT !.user = user]

\* LoginView.form_valid, lines 156-157: the warn checkbox is stored in the session.
StoreWarn(sess, warn) == IF warn THEN [sess EXCEPT !.warn = TRUE] ELSE sess

\* PostBranch with form_valid run whatever the form's validation found.
PostBranch_AlwaysValid(user) == "form_valid"

\* LoginView as a FormView of LoginForm: form_valid runs only for a form whose
\* validation authenticated a user, form_invalid otherwise.
PostBranch(user) == IF user = NoUser THEN "form_invalid" ELSE "form_valid"

\* POST /login?service=.. with username, password and the warn checkbox:
\* FormView.post runs LoginForm's validation, then form_valid or form_invalid.
LoginPost(serviceParam, username, password, warn) ==
    LET user == authenticate(username, password)
        req == [service |-> serviceParam, warn |-> warn]
        sess == StoreWarn(login(session, user), warn)
    IN  IF PostBranch(user) = "form_invalid"
        THEN \* form_invalid: the form is rendered again with its errors
             /\ last' = Done("login_post", req, RenderForm("invalid"))
             /\ UNCHANGED <<tickets, session, settings, workers, accounts>>
        ELSE /\ session' = sess
             /\ IF Truthy(serviceParam) /\ issue_allowed(serviceParam)
                THEN LET store == create_ticket(tickets, STPrefix, serviceParam, user, TRUE, 0)
                         st == TokenOf(store, Len(store))
                     IN  /\ tickets' = store
                         /\ last' = Done("login_post", req, redirect(serviceParam, None, st))
                ELSE /\ UNCHANGED tickets
                     /\ last' = Done("login_post", req,
                                     IF Truthy(serviceParam) THEN Rejected
                                     ELSE redirect(CasLogin, None, NoTicket))
             /\ UNCHANGED <<settings, workers, accounts>>

\* ----------------------------------------------------------------- /warn
\* WarnView.get behind LoginRequiredMixin: an anonymous client is sent to the
\* login view; otherwise the confirmation page links to the service with the
\* pending ticket, unless the service is not a valid one.
WarnGet(serviceParam, ticketParam) ==
    LET req == [service |-> serviceParam]
    IN  /\ last' = Done("warn", req,
                        IF ~is_authenticated(session) THEN redirect(CasLogin, None, NoTicket)
                        ELSE IF ~is_valid_service(serviceParam) THEN redirect(CasLogin, None, NoTicket)
                        ELSE Resp("warn_page", "", serviceParam, ticketParam, ""))
        /\ UNCHANGED <<tickets, session, settings, workers, accounts>>

\* --------------------------------------------------------------- /logout
\* mama_cas.cas.logout_user: the SSO session is destroyed.
logout_user(sess) == [user |-> NoUser, warn |-> FALSE]

\* LogoutView.get following the service URL whatever the policy says.
LogoutGet_IgnoresPolicy(serviceParam) ==
    LET req == [service |-> serviceParam]
    IN  /\ session' = logout_user(session)
        /\ last' = Done("logout", req,
                        IF Truthy(serviceParam)
                        THEN redirect(serviceParam, None, NoTicket)
                        ELSE redirect(CasLogin, None, NoTicket))
        /\ UNCHANGED <<tickets, settings, workers, accounts>>

\* LogoutView.get
LogoutGet(serviceParam) ==
    LET req == [service |-> serviceParam]
    IN  /\ session' = logout_user(session)
        /\ last' = Done("logout", req,
                        IF Truthy(serviceParam) /\ settings.FOLLOW_LOGOUT_URL
                        THEN redirect(serviceParam, None, NoTicket)
                        ELSE redirect(CasLogin, None, NoTicket))
        /\ UNCHANGED <<tickets, settings, workers, accounts>>

\* ---------------------------------------------------------------- /oauth
\* The identity providers OAuthView.get dispatches to.
Providers == {"github", "qq", "weibo", "wechat"}

\* What __http_post and __http_get return for a call to a provider: None (the
\* request raised), an empty body, a decoded JSON document that holds the
\* fields the adapter reads or one that lacks them, or an undecoded body that
\* holds the text the adapter looks for or one that does not.
HttpResults == {"none", "empty", "json_ok", "json_err", "text_ok", "text_err"}

\* `if result:` -- None and an empty body are false.
Falsy(r) == r \in {"none", "empty"}

\* The request ended in an exception no view code catches.
Fault == Resp("fault", "", None, NoTicket, "")

\* HttpResponse(content=..., content_type='text/plain')
PlainText(body) == Resp("text", "", None, NoTicket, body)

\* The outcome of an adapter up to the call of __sync_user: an uncaught
\* exception, the fall-through to the failure message, or a username.
Raised == [out |-> "fault", username |-> ""]
FellThrough == [out |-> "failed", username |-> ""]
Synthesized(username) == [out |-> "user", username |-> username]

\* do_github, lines 438-447.  `'access_token' in result` is a key test on a
\* document and a substring test on an undecoded body; data['login'] is not
\* guarded.
do_github(code, token, profile, name) ==
    IF Falsy(token) \/ token \in {"json_err", "text_err"} THEN FellThrough
    ELSE IF token = "text_ok" THEN Raised
    ELSE IF profile = "json_ok" THEN Synthesized(name \o "_github")
    ELSE Raised

\* do_qq, lines 462-484.  result.split is a string method; the access token
\* defaults to ''; data.startswith and user_info['nickname'] are not guarded.
do_qq(code, token, me, user_info, name) ==
    IF Falsy(token) THEN FellThrough
    ELSE IF token \in {"json_ok", "json_err"} THEN Raised
    ELSE IF me \in {"none", "json_ok", "json_err"} THEN Raised
    ELSE IF me \in {"empty", "text_err"} THEN FellThrough
    ELSE IF user_info # "json_ok" THEN Raised
    ELSE IF name = "" THEN FellThrough
    ELSE Synthesized(name \o "_qq")

\* do_weibo, lines 500-515.  The profile is guarded by `if data:` only.
do_weibo(code, token, profile, name) ==
    IF Falsy(token) \/ token \in {"json_err", "text_err"} THEN FellThrough
    ELSE IF token = "text_ok" THEN Raised
    ELSE IF Falsy(profile) THEN FellThrough
    ELSE IF profile = "json_ok" THEN Synthesized(name \o "_weibo")
    ELSE Raised

\* do_wechat, lines 522-531.  The url is built with '&code=' + code; both
\* documents are guarded by `if data:` only.
do_wechat(code, token, profile, name) ==
    IF code = None THEN Raised
    ELSE IF Falsy(token) THEN FellThrough
    ELSE IF token # "json_ok" THEN Raised
    ELSE IF Falsy(profile) THEN FellThrough
    ELSE IF profile = "json_ok" THEN Synthesized(name \o "_wechat")
    ELSE Raised

\* The failure message of each adapter.
FailureMessage ==
    [prov \in Providers |->
        CASE prov = "github" -> "GitHub OAuth failed"
          [] prov = "qq" -> "QQ OAuth failed"
          [] prov = "weibo" -> "Weibo OAuth failed"
          [] prov = "wechat" -> "WeChat OAuth failed"]

\* The adapter OAuthView.get dispatches to, lines 371-378.
Adapter(prov, code, http, name) ==
    CASE prov = "github" -> do_github(code, http[1], http[2], name)
      [] prov = "qq" -> do_qq(code, http[1], http[2], http[3], name)
      [] prov = "weibo" -> do_weibo(code, http[1], http[2], name)
      [] prov = "wechat" -> do_wechat(code, http[1], http[2], name)

\* OAuthView.get.  v is the list v.split(',') yields (<<>> for no v); code is
\* the provider's code parameter; http are the results of the adapter's calls
\* to the provider, in order; name is the name the profile carries; accepted
\* tells whether authenticate() accepts the account in __sync_user.
OAuthGet(v, code, http, name, accepted) ==
    LET req == [v |-> v, code |-> code, http |-> http]
    IN  IF Len(v) # 2 \/ v[1] \notin Providers
        THEN /\ last' = Done("oauth", req, PlainText("login from a web application"))
             /\ UNCHANGED <<tickets, session, settings, workers, accounts>>
        ELSE LET a == Adapter(v[1], code, http, name)
                 service == v[2]
             IN  IF a.out # "user"
                 THEN /\ last' = Done("oauth", req,
                                      IF a.out = "fault" THEN Fault ELSE PlainText(FailureMessage[v[1]]))
                      /\ UNCHANGED <<tickets, session, settings, workers, accounts>>
                 ELSE \* __sync_user: the account is created when absent,
                      \* then authenticated and logged in
                      /\ accounts' = accounts \cup {a.username}
                      /\ IF ~accepted
                         THEN /\ last' = Done("oauth", req, PlainText(FailureMessage[v[1]]))
                              /\ UNCHANGED <<tickets, session>>
                         ELSE /\ session' = login(session, a.username)
                              /\ IF issue_allowed(service)
                                 THEN LET store == create_ticket(tickets, STPrefix, service,
                                                                 a.username, DefaultPrimary, 0)
                                      IN  /\ tickets' = store
                                          /\ last' = Done("oauth", req,
                                                          redirect(service, None, TokenOf(store, Len(store))))
                                 ELSE /\ UNCHANGED tickets
                                      /\ last' = Done("oauth", req, Rejected)
                      /\ UNCHANGED <<settings, workers>>

\* ------------------------------------------- the federated redirect URI
\* request.path of the login view, as the mount point of the CAS URLs and the
\* rest: LoginView.get, lines 88-90, cuts a trailing 'login' off the path.
LoginPath(path) == IF path[2] = "login" THEN path[1] ELSE path[1] \o path[2]

\* LoginView.get_context_data, lines 65-68: the redirect_uri inside the
\* provider's authorization URL.
AuthorizationRedirectUri(prov, scheme, host, path, service) ==
    scheme \o "://" \o host \o LoginPath(path) \o "oauth?v=" \o prov \o "," \o service

\* The redirect_uri of the code-for-token exchange: do_qq (line 460) and
\* do_weibo (line 498) send one, do_github (lines 432-437) and do_wechat
\* (line 522) send none.
ExchangeRedirectUri(prov, host, service) ==
    IF prov \in {"qq", "weibo"}
    THEN "http://" \o host \o "/oauth?v=" \o prov \o "," \o service
    ELSE None

\* GET /login by a client without a session: the login form is rendered with
\* the authorization URLs of get_context_data, and the client follows the one
\* of provider prov.
LoginPage(scheme, host, path, serviceParam, prov) ==
    LET service == LoginService(serviceParam)
    IN  /\ ~is_authenticated(session)
        /\ last' = [view |-> "login_page",
                    req |-> [scheme |-> scheme, host |-> host, path |-> path,
                             service |-> service, provider |-> prov],
                    authorize_uri |-> AuthorizationRedirectUri(prov, scheme, host, path, service)]
        /\ UNCHANGED <<tickets, session, settings, workers, accounts>>

\* The provider sends the client back to the redirect URI on the same host
\* with v=<provider>,<service> and a code, and the adapter sends its
\* code-for-token exchange.
OAuthExchange ==
    /\ last.view = "login_page"
    /\ last' = [view |-> "oauth_exchange", req |-> last.req,
                authorize_uri |-> last.authorize_uri,
                exchange_uri |-> ExchangeRedirectUri(last.req.provider, last.req.host,
                                                     last.req.service)]
    /\ UNCHANGED <<tickets, session, settings, workers, accounts>>

\* ------------------------------------------------------ TicketAuthority
\* The outcome of a validation call: the position of the validated ticket (0
\* for none), of the proxy-granting ticket minted with it (0 for none), the
\* error ("" for none) and the store the call leaves.
VResult(t, pgt, error, store) == [t |-> t, pgt |-> pgt, error |-> error, store |-> store]

\* Lookup by token in the table of one kind: the position of the ticket, or 0
\* when no ticket of that kind has that token.
Lookup(store, kind, ticket) ==
    IF ticket[1] = kind /\ ticket[2] \in 1..Len(store) /\ store[ticket[2]].kind = kind
    THEN ticket[2] ELSE 0

\* The checks a validation request must pass before any ticket is touched.
RequestError(kind, ticket, service) ==
    IF ticket = NoTicket \/ ~Truthy(service) THEN "InvalidRequest"
    ELSE IF kind = STPrefix /\ ticket[1] = PTPrefix THEN "InvalidTicketSpec"
    ELSE ""

\* TicketError without the test of the time to live.
TicketError_IgnoresExpiry(row, service, renew) ==
    IF row.service # service THEN "ServiceMismatch"
    ELSE IF renew /\ ~row.primary THEN "StaleCredentialsRequired"
    ELSE ""

\* The checks on the ticket row itself, made once the row has been claimed.
TicketError(row, service, renew) ==
    IF row.expired THEN "TicketExpired"
    ELSE IF row.service # service THEN "ServiceMismatch"
    ELSE IF renew /\ ~row.primary THEN "StaleCredentialsRequired"
    ELSE ""

\* Claims as a plain write of the flag: every caller believes it consumed the ticket.
Claims_Blind(store, n) == TRUE

\* The atomic check-and-set on the consumed flag of the ticket at position n:
\* TRUE iff this call is the one that consumed it.
Claims(store, n) == ~store[n].consumed

\* The store once ticket n is consumed.
Consume(store, n) == [store EXCEPT ![n].consumed = TRUE]

\* validate_ticket consuming the ticket only when every check has passed.
validate_ticket_ConsumesOnSuccess(store, kind, ticket, service, renew) ==
    LET n == Lookup(store, kind, ticket)
    IN  IF RequestError(kind, ticket, service) # ""
        THEN VResult(0, 0, RequestError(kind, ticket, service), store)
        ELSE IF n = 0 THEN VResult(0, 0, "TicketNotFound", store)
        ELSE IF ~Claims(store, n) THEN VResult(0, 0, "TicketAlreadyConsumed", store)
        ELSE IF TicketError(store[n], service, renew) # ""
        THEN VResult(0, 0, TicketError(store[n], service, renew), store)
        ELSE VResult(n, 0, "", Consume(store, n))

\* TicketAuthority.consume, as <Kind>Ticket.objects.validate_ticket: the ticket
\* is looked up, consumed (whether or not validation then succeeds), checked.
validate_ticket(store, kind, ticket, service, renew) ==
    LET n == Lookup(store, kind, ticket)
    IN  IF RequestError(kind, ticket, service) # ""
        THEN VResult(0, 0, RequestError(kind, ticket, service), store)
        ELSE IF n = 0 THEN VResult(0, 0, "TicketNotFound", store)
        ELSE IF ~Claims(store, n) THEN VResult(0, 0, "TicketAlreadyConsumed", store)
        ELSE IF TicketError(store[n], service, renew) # ""
        THEN VResult(0, 0, TicketError(store[n], service, renew), Consume(store, n))
        ELSE VResult(n, 0, "", Consume(store, n))

\* CallbackVerified accepting every callback URL.
CallbackVerified_AnyUrl(pgturl) == TRUE

\* ProxyChainResolver.issuePgt: the callback must use a secure transport and
\* answer the IOU handshake with success; only then is a PGT minted.
CallbackVerified(pgturl) == pgturl = "https-ok"

\* The proxy-granting ticket step of a successful validation: with a pgtUrl
\* whose callback verifies, a PGT granted by the validated ticket is created.
WithPgt(res, pgturl) ==
    IF res.t # 0 /\ Truthy(pgturl) /\ CallbackVerified(pgturl)
    THEN LET row == res.store[res.t]
             store == create_ticket(res.store, PGTPrefix, row.service, row.user, FALSE, res.t)
         IN  VResult(res.t, Len(store), "", store)
    ELSE res

\* mama_cas.cas.validate_service_ticket(service, ticket, pgturl, renew)
validate_service_ticket(store, service, ticket, pgturl, renew) ==
    WithPgt(validate_ticket(store, STPrefix, ticket, service, renew), pgturl)

\* mama_cas.cas.validate_proxy_ticket(service, ticket, pgturl): no renew.
validate_proxy_ticket(store, service, ticket, pgturl) ==
    WithPgt(validate_ticket(store, PTPrefix, ticket, service, FALSE), pgturl)

\* --------------------------------------------------- validation endpoints
ValidationEndpoints == {"validate", "serviceValidate", "proxyValidate"}

\* IsProxyTicketRequest sending every ticket to validate_proxy_ticket.
IsProxyTicketRequest_Always(ticket) == TRUE

\* ProxyValidateView.get_context_data, line 301: a missing ticket or one with
\* the proxy-ticket prefix goes to validate_proxy_ticket.
IsProxyTicketRequest(ticket) == ticket = NoTicket \/ ticket[1] = PTPrefix

\* The ticket table an endpoint's validation call looks the token up in.
TableOf(endpoint, ticket) ==
    IF endpoint = "proxyValidate" /\ IsProxyTicketRequest(ticket) THEN PTPrefix ELSE STPrefix

\* CallValidation with /proxyValidate not handing renew on for a service ticket.
CallValidation_DropsRenew(store, endpoint, service, ticket, pgturl, renew) ==
    IF endpoint = "validate" THEN validate_service_ticket(store, service, ticket, None, renew)
    ELSE IF endpoint = "serviceValidate" THEN validate_service_ticket(store, service, ticket, pgturl, renew)
    ELSE IF IsProxyTicketRequest(ticket) THEN validate_proxy_ticket(store, service, ticket, pgturl)
    ELSE validate_service_ticket(store, service, ticket, pgturl, FALSE)

\* ValidateView.get line 235, ServiceValidateView.get_context_data line 269,
\* ProxyValidateView.get_context_data lines 301-307: the validation call.
CallValidation(store, endpoint, service, ticket, pgturl, renew) ==
    IF endpoint = "validate" THEN validate_service_ticket(store, service, ticket, None, renew)
    ELSE IF endpoint = "serviceValidate" THEN validate_service_ticket(store, service, ticket, pgturl, renew)
    ELSE IF IsProxyTicketRequest(ticket) THEN validate_proxy_ticket(store, service, ticket, pgturl)
    ELSE validate_service_ticket(store, service, ticket, pgturl, renew)

\* The context the CAS 2.0 views hand to ValidationResponse: ticket, pgt, error
\* and the attributes of the ticket's user (lines 270-271, 308-310).
ValidationContext(res) ==
    [kind |-> "xml", ticket |-> IF res.t # 0 THEN TokenOf(res.store, res.t) ELSE NoTicket,
     user |-> IF res.t # 0 THEN res.store[res.t].user ELSE NoUser,
     pgt |-> IF res.pgt # 0 THEN TokenOf(res.store, res.pgt) ELSE NoTicket,
     error |-> res.error,
     attributes |-> IF res.t # 0 THEN <<res.store[res.t].user, res.store[res.t].service>> ELSE <<>>]

\* ProxyChainResolver: the proxy chain of the proxy ticket at position n, most
\* recent proxy first: the service of the PGT that issued it, followed by the
\* chain of the proxy ticket that PGT was granted by, if it was granted by one.
RECURSIVE ProxyChain(_, _)
ProxyChain(store, n) ==
    LET g == store[n].parent
    IN  IF g = 0 THEN <<>>
        ELSE <<store[g].service>> \o
             (IF store[g].parent # 0 /\ store[store[g].parent].kind = PTPrefix
              THEN ProxyChain(store, store[g].parent) ELSE <<>>)

\* The proxies validate_proxy_ticket returns with its outcome.
Proxies(res) == IF res.t # 0 THEN ProxyChain(res.store, res.t) ELSE <<>>

\* ContextProxies with the proxies of the validation call left out.
ContextProxies_Dropped(ticket, res) == <<>>

\* ProxyValidateView.get_context_data, lines 301-307: the proxies of the
\* validate_proxy_ticket call, none (None) for validate_service_ticket.
ContextProxies(ticket, res) == IF IsProxyTicketRequest(ticket) THEN Proxies(res) ELSE <<>>

\* The context of /proxyValidate, lines 308-310: that of /serviceValidate and
\* the proxies.
ProxyValidationContext(ticket, res) ==
    [kind |-> "xml", ticket |-> ValidationContext(res).ticket,
     user |-> ValidationContext(res).user, pgt |-> ValidationContext(res).pgt,
     error |-> ValidationContext(res).error,
     attributes |-> ValidationContext(res).attributes,
     proxies |-> ContextProxies(ticket, res)]

\* ValidateContent with the test of st inverted.
ValidateContent_Inverted(res) ==
    IF res.t = 0 THEN "yes\n" \o NoUser \o "\n" ELSE "no\n\n"

\* ValidateView.get, lines 236-240: the plain-text body.
ValidateContent(res) ==
    IF res.t # 0 THEN "yes\n" \o res.store[res.t].user \o "\n" ELSE "no\n\n"

\* The response of a validation endpoint to the outcome of its validation call:
\* HttpResponse(content, 'text/plain') for /validate, the context of the XML
\* response for the others.
ValidationResponse(endpoint, ticket, res) ==
    IF endpoint = "validate"
    THEN [kind |-> "text", body |-> ValidateContent(res)]
    ELSE IF endpoint = "proxyValidate" THEN ProxyValidationContext(ticket, res)
    ELSE ValidationContext(res)

\* What the last validation request was, with the error its validation call
\* returned (the views log it; /validate does not show it).
DoneValidation(view, req, resp, error) ==
    [view |-> view, req |-> req, resp |-> resp, error |-> error]

\* What is kept of the request a validation endpoint received.
VReq(endpoint, service, ticket, pgturl, renew) == [renew |-> renew, pgtUrl |-> pgturl]

\* GET /validate, /serviceValidate or /proxyValidate, handled in one piece.
ValidationGet(endpoint, service, ticket, pgturl, renew) ==
    LET res == CallValidation(tickets, endpoint, service, ticket, pgturl, renew)
    IN  /\ tickets' = res.store
        /\ last' = DoneValidation(endpoint, VReq(endpoint, service, ticket, pgturl, renew),
                                  ValidationResponse(endpoint, ticket, res), res.error)
        /\ UNCHANGED <<session, settings, workers, accounts>>

\* ---------------------------------------------------------- /samlValidate
\* The body of a POST /samlValidate as defused_etree.parse sees it: a document
\* that does not parse (or that defusedxml forbids), a document without an
\* AssertionArtifact element, a document whose AssertionArtifact holds a token.
SamlBody(parse, artifact) == [parse |-> parse, artifact |-> artifact]
Unparsable == SamlBody("error", NoTicket)
NoArtifact == SamlBody("no_artifact", NoTicket)

\* Lines 354-358: the text of the AssertionArtifact element; ParseError,
\* ValueError and AttributeError leave ticket = None.
ArtifactOf(body) == IF body.parse = "ok" THEN body.artifact ELSE NoTicket

\* Targets of /samlValidate: svcH is a service of the registry reached over
\* plain http, the others use https.
SamlTargets == {None, "svcA", "svcH"}
is_scheme_https(service) == service # "svcH"

\* validate_service_ticket(target, ticket, None, require_https=True), line 360:
\* a target that is not reached over https is refused.
validate_service_ticket_https(store, target, ticket) ==
    IF ticket # NoTicket /\ Truthy(target) /\ ~is_scheme_https(target)
    THEN VResult(0, 0, "InvalidService", store)
    ELSE validate_service_ticket(store, target, ticket, None, FALSE)

\* The context handed to SamlValidationResponse, lines 361-362.
SamlValidationContext(res) ==
    [kind |-> "saml", ticket |-> ValidationContext(res).ticket,
     user |-> ValidationContext(res).user, pgt |-> ValidationContext(res).pgt,
     error |-> ValidationContext(res).error,
     attributes |-> ValidationContext(res).attributes]

\* SamlPost handing a proxy callback URL to the validation call.
SamlPost_WithCallback(target, body, defused_etree) ==
    LET req == [target |-> target, body |-> body.parse, defused_etree |-> defused_etree]
        res == validate_service_ticket(tickets, target, ArtifactOf(body), "https-ok", FALSE)
    IN  IF ~defused_etree
        THEN /\ last' = DoneValidation("samlValidate", req, Fault, "AssertionError")
             /\ UNCHANGED <<tickets, session, settings, workers, accounts>>
        ELSE /\ tickets' = res.store
             /\ last' = DoneValidation("samlValidate", req, SamlValidationContext(res), res.error)
             /\ UNCHANGED <<session, settings, workers, accounts>>

\* POST /samlValidate?TARGET=target with a request body. defused_etree is
\* mama_cas.compat.defused_etree: FALSE where defusedxml is not installed, and
\* then the assert of line 352 raises AssertionError out of the view.
SamlPost(target, body, defused_etree) ==
    LET req == [target |-> target, body |-> body.parse, defused_etree |-> defused_etree]
        res == validate_service_ticket_https(tickets, target, ArtifactOf(body))
    IN  IF ~defused_etree
        THEN /\ last' = DoneValidation("samlValidate", req, Fault, "AssertionError")
             /\ UNCHANGED <<tickets, session, settings, workers, accounts>>
        ELSE /\ tickets' = res.store
             /\ last' = DoneValidation("samlValidate", req, SamlValidationContext(res), res.error)
             /\ UNCHANGED <<session, settings, workers, accounts>>

\* ---------------------------------------------------------------- /proxy
\* ProxyChainResolver.issuePt, as mama_cas.cas.validate_proxy_granting_ticket:
\* a known, unexpired PGT mints a proxy ticket for the target service and is
\* not consumed by it.
validate_proxy_granting_ticket(store, pgt, target_service) ==
    LET n == Lookup(store, PGTPrefix, pgt)
    IN  IF pgt = NoTicket \/ ~Truthy(target_service) THEN VResult(0, 0, "InvalidRequest", store)
        ELSE IF n = 0 \/ store[n].expired THEN VResult(0, 0, "PgtInvalidOrExpired", store)
        ELSE IF ~issue_allowed(target_service) THEN VResult(0, 0, "InvalidService", store)
        ELSE LET new == create_ticket(store, PTPrefix, target_service, store[n].user, FALSE, n)
             IN  VResult(Len(new), 0, "", new)

\* ProxyContext without the ticket.
ProxyContext_NoTicket(res) == [kind |-> "xml", ticket |-> NoTicket, error |-> res.error]

\* ProxyView.get_context_data, line 331: {'ticket': pt, 'error': error}.
ProxyContext(res) ==
    [kind |-> "xml", ticket |-> IF res.t # 0 THEN TokenOf(res.store, res.t) ELSE NoTicket,
     error |-> res.error]

\* ProxyView.get_context_data
ProxyGet(pgt, target_service) ==
    LET res == validate_proxy_granting_ticket(tickets, pgt, target_service)
    IN  /\ tickets' = res.store
        /\ last' = DoneValidation("proxy", [targetService |-> target_service],
                                  ProxyContext(res), res.error)
        /\ UNCHANGED <<session, settings, workers, accounts>>

\* ------------------------------------------- concurrent validation requests
\* The request handlers that run side by side.
Workers == 1..NumWorkers

\* A validation request arrives at worker w: the view has read its parameters
\* and has not yet called the ticket authority.
Begin(w, endpoint, service, ticket, renew) ==
    /\ workers[w].pc = "idle"
    /\ workers' = [workers EXCEPT ![w] =
           [pc |-> "called", endpoint |-> endpoint, service |-> service,
            ticket |-> ticket, renew |-> renew]]
    /\ UNCHANGED <<tickets, session, settings, last, accounts>>

\* Worker w's validation call runs against the store as it is now, and the
\* view answers; raced tells whether another request for the same token was
\* in flight at that moment.
Finish(w) ==
    LET q == workers[w]
        res == CallValidation(tickets, q.endpoint, q.service, q.ticket, None, q.renew)
        resp == ValidationResponse(q.endpoint, q.ticket, res)
    IN  /\ q.pc = "called"
        /\ tickets' = res.store
        /\ workers' = [workers EXCEPT ![w] =
               [pc |-> "done", endpoint |-> q.endpoint, service |-> q.service,
                ticket |-> q.ticket, renew |-> q.renew, resp |-> resp, error |-> res.error,
                raced |-> \E v \in Workers \ {w} :
                             workers[v].pc = "called" /\ workers[v].ticket = q.ticket]]
        /\ UNCHANGED <<session, settings, last, accounts>>

\* ------------------------------------------------------------------ time
\* A ticket's time to live runs out.
Expire(n) ==
    /\ n \in 1..Len(tickets)
    /\ ~tickets[n].expired
    /\ tickets' = [tickets EXCEPT ![n].expired = TRUE]
    /\ last' = NoRequest
    /\ UNCHANGED <<session, settings, workers, accounts>>

\* ---------------------------------------------------- the specifications
\* Tokens a client can present: those of the tickets in the store, under each
\* prefix one token no ticket has, and no token at all.
Presentable ==
    {NoTicket} \cup {TokenOf(tickets, n) : n \in 1..Len(tickets)}
               \cup {Token(p, Len(tickets) + 1) : p \in Prefixes}
\* The same with a single token that no ticket has.
Presented ==
    {NoTicket, Token(STPrefix, Len(tickets) + 1)} \cup {TokenOf(tickets, n) : n \in 1..Len(tickets)}
\* Service parameters a client can send to the browser-facing views: none, one
\* the registry allows and one it does not.
ServiceParams == {None, "svcA", "svcX"}
\* What a client may type into the login form: right and wrong credentials.
Credentials == {<<"alice", "pw1">>, <<"bob", "pw2">>, <<"alice", "pw2">>, <<"mallory", "pw1">>}
Anonymous == [user |-> NoUser, warn |-> FALSE]
Idle == [pc |-> "idle"]

\* The state after start-up: empty ticket tables, no session, any configuration
\* of MAMA_CAS_DEFAULT_SERVICE and MAMA_CAS_FOLLOW_LOGOUT_URL.
Init ==
    /\ tickets = <<>>
    /\ session = Anonymous
    /\ settings \in [DEFAULT_SERVICE : {"", "svcA"}, FOLLOW_LOGOUT_URL : BOOLEAN]
    /\ last = NoRequest
    /\ workers = [w \in Workers |-> Idle]
    /\ accounts = {}

\* The browser-facing views: /login (GET and POST), /warn and /logout.
NextLogin ==
    \/ \E s \in ServiceParams, r \in BOOLEAN, g \in BOOLEAN :
          LoginGet(s, r, g) /\ Len(tickets') <= MaxIssued
    \/ \E s \in ServiceParams, c \in Credentials, w \in BOOLEAN :
          LoginPost(s, c[1], c[2], w) /\ Len(tickets') <= MaxIssued
    \/ \E s \in ServiceParams, t \in Presented : WarnGet(s, t)
    \/ \E s \in ServiceParams : LogoutGet(s)

SpecLogin == Init /\ [][NextLogin]_vars

\* A store in which alice's primary ticket for svcA has been validated with a
\* verified pgtUrl, which minted a proxy-granting ticket: the state after
\* POST /login?service=svcA as alice and /serviceValidate of the ticket with
\* pgtUrl (SpecIssue reaches it, see IssuedPgtState).
PgtStore ==
    <<[NewTicket(STPrefix, "svcA", "alice", TRUE, 0) EXCEPT !.consumed = TRUE],
      NewTicket(PGTPrefix, "svcA", "alice", FALSE, 1)>>

DefaultSettings == [DEFAULT_SERVICE |-> "", FOLLOW_LOGOUT_URL |-> TRUE]

InitTickets ==
    /\ tickets = PgtStore
    /\ session = [user |-> "alice", warn |-> FALSE]
    /\ settings = DefaultSettings
    /\ last = DoneValidation("serviceValidate",
                             VReq("serviceValidate", "svcA", Token(STPrefix, 1), "https-ok", FALSE),
                             ValidationResponse("serviceValidate", Token(STPrefix, 1),
                                                VResult(1, 2, "", PgtStore)), "")
    /\ workers = [w \in Workers |-> Idle]
    /\ accounts = {}

\* The ticket pipeline: tickets issued by /login (from credentials and from the
\* session) and by /proxy, validated by the three validation endpoints, expiring.
NextTickets ==
    \/ \E s \in ValidServices :
          LoginPost(s, "alice", "pw1", FALSE) /\ Len(tickets') <= MaxValidated
    \/ \E s \in ValidServices :
          LoginGet(s, FALSE, FALSE) /\ Len(tickets') <= MaxValidated
    \/ \E t \in Presented, s \in ValidServices :
          ProxyGet(t, s) /\ Len(tickets') <= MaxValidated
    \/ \E e \in ValidationEndpoints, s \in ValidServices \cup {None}, t \in Presented,
          r \in BOOLEAN :
          ValidationGet(e, s, t, IF e = "validate" THEN "https-ok" ELSE None, r)
             /\ Len(tickets') <= MaxValidated
    \/ \E n \in (Len(PgtStore) + 1)..MaxValidated : Expire(n)

SpecTickets == InitTickets /\ [][NextTickets]_vars

\* The ticket pipeline from empty tables, up to the first proxy-granting ticket.
NextIssue ==
    \/ \E s \in ValidServices, c \in {<<"alice", "pw1">>, <<"bob", "pw2">>} :
          LoginPost(s, c[1], c[2], FALSE) /\ Len(tickets') <= 2
    \/ \E e \in ValidationEndpoints, s \in ValidServices, t \in Presentable,
          p \in PgtUrls \cup {None}, r \in BOOLEAN :
          ValidationGet(e, s, t, p, r) /\ Len(tickets') <= 2

SpecIssue == (Init /\ settings = DefaultSettings) /\ [][NextIssue]_vars

\* The initial states of SpecTickets, as states of the system.
IssuedPgtState == InitTickets

\* Concurrent validation: each worker handles one validation request; the
\* requests overlap in every order while /login and /proxy issue tickets.
NextConc ==
    \/ LoginPost("svcA", "alice", "pw1", FALSE) /\ Len(tickets') <= MaxValidated
    \/ ProxyGet(Token(PGTPrefix, 2), "svcA") /\ Len(tickets') <= MaxValidated
    \/ \E w \in Workers, e \in ValidationEndpoints, s \in ValidServices,
          n \in (Len(PgtStore) + 1)..Len(tickets) : Begin(w, e, s, TokenOf(tickets, n), FALSE)
    \/ \E w \in Workers : Finish(w)

SpecConc == InitTickets /\ [][NextConc]_vars

\* The number of calls to the provider an adapter makes, given what the calls
\* return: the results of calls it never makes are not part of a request.
CallsMade(prov, code, http) ==
    CASE prov \in {"github", "weibo"} -> IF http[1] = "json_ok" THEN 2 ELSE 1
      [] prov = "wechat" -> IF code = None THEN 0 ELSE IF http[1] = "json_ok" THEN 2 ELSE 1
      [] prov = "qq" -> IF http[1] \notin {"text_ok", "text_err"} THEN 1
                        ELSE IF http[2] = "text_ok" THEN 3 ELSE 2
      [] OTHER -> 0

\* The results of the calls the adapter makes, padded with "none".
HttpTraces(prov, code) ==
    {h \in HttpResults \X HttpResults \X HttpResults :
        \A i \in 1..3 : i > CallsMade(prov, code, h) => h[i] = "none"}

\* The v parameters a client can send: none, one field, an unknown provider,
\* each provider with a service the registry allows, and one with a service it
\* does not allow.
VParams ==
    {<<>>, <<"github">>, <<"gitlab", "svcA">>, <<"github", "svcX">>}
        \cup {<<prov, "svcA">> : prov \in Providers}

\* The code parameters sent with v: the provider's code, or none (which only
\* the wechat adapter handles itself).
CodeParams(v) == IF v = <<"wechat", "svcA">> THEN {None, "code"} ELSE {"code"}

\* The names a profile can carry: a name, or an empty one (which only the qq
\* adapter tests for).
ProfileNames(v) == IF v = <<"qq", "svcA">> THEN {"carol", ""} ELSE {"carol"}

\* Federated login: the provider callback in every way the providers can
\* answer, and /serviceValidate of the ticket it issued, with and without renew.
NextOAuth ==
    \/ \E v \in VParams, accepted \in BOOLEAN :
          \E code \in CodeParams(v), name \in ProfileNames(v) :
          \E h \in HttpTraces(IF v = <<>> THEN "" ELSE v[1], code) :
             /\ OAuthGet(v, code, h, name, accepted)
             /\ Len(tickets') <= MaxFederated
             /\ Cardinality(accounts') <= MaxFederated
    \/ \E n \in 1..Len(tickets), r \in BOOLEAN :
          ValidationGet("serviceValidate", "svcA", TokenOf(tickets, n), None, r)

\* The state after start-up under the default configuration.
InitOAuth ==
    /\ tickets = <<>>
    /\ session = Anonymous
    /\ settings = DefaultSettings
    /\ last = NoRequest
    /\ workers = [w \in Workers |-> Idle]
    /\ accounts = {}

SpecOAuth == InitOAuth /\ [][NextOAuth]_vars

\* Proxy authentication: /proxy issues proxy tickets from proxy-granting
\* tickets, /proxyValidate validates them and, with a pgtUrl, mints the next
\* proxy-granting ticket of the chain; the first proxy-granting ticket and
\* the ticket issued after it can expire; that ticket may also be a service
\* ticket issued by /login from the session.
NextProxy ==
    \/ \E t \in Presented, s \in ValidServices :
          ProxyGet(t, s) /\ Len(tickets') <= MaxChain
    \/ \E s \in ValidServices, t \in Presented, p \in {None, "https-ok"} :
          ValidationGet("proxyValidate", s, t, p, FALSE) /\ Len(tickets') <= MaxChain
    \/ \E n \in {Len(PgtStore), Len(PgtStore) + 1} : Expire(n)
    \/ LoginGet("svcA", FALSE, FALSE) /\ Len(tickets') <= Len(PgtStore) + 1

SpecProxy == InitTickets /\ [][NextProxy]_vars

\* Validation with a proxy callback: /serviceValidate and /proxyValidate of
\* service and proxy tickets with every kind of pgtUrl; a successful validation
\* may add the proxy-granting ticket it mints to a full store.
NextCallback ==
    \/ LoginGet("svcA", FALSE, FALSE) /\ Len(tickets') <= MaxValidated
    \/ \E s \in ValidServices :
          ProxyGet(Token(PGTPrefix, Len(PgtStore)), s) /\ Len(tickets') <= MaxValidated
    \/ \E e \in {"serviceValidate", "proxyValidate"}, s \in ValidServices, t \in Presented,
          p \in PgtUrls \cup {None} :
          ValidationGet(e, s, t, p, FALSE) /\ Len(tickets') <= MaxValidated + 1

SpecCallback == InitTickets /\ [][NextCallback]_vars

\* Every token shape a client can present: no token, a token no ticket has,
\* and each prefix with the random part of each ticket in the store.
AnyToken ==
    {NoTicket, Token(STPrefix, Len(tickets) + 1)}
       \cup {Token(p, n) : p \in Prefixes, n \in 1..Len(tickets)}

\* The bodies a client can post to /samlValidate.
SamlBodies == {Unparsable, NoArtifact} \cup {SamlBody("ok", t) : t \in AnyToken}

\* The five protocol endpoints, each presented with every token shape, while
\* /login issues service tickets, /proxy proxy tickets, and tickets expire.
NextEndpoints ==
    \/ LoginGet("svcA", FALSE, FALSE) /\ Len(tickets') <= MaxValidated
    \/ \E t \in AnyToken, s \in {None, "svcA"} : ProxyGet(t, s) /\ Len(tickets') <= MaxValidated
    \/ \E e \in ValidationEndpoints, s \in {None, "svcA"}, t \in AnyToken :
          ValidationGet(e, s, t, None, FALSE)
    \/ \E g \in SamlTargets, b \in SamlBodies, d \in BOOLEAN : SamlPost(g, b, d)
    \/ \E n \in Len(PgtStore)..Len(tickets) : Expire(n)

SpecEndpoints == InitTickets /\ [][NextEndpoints]_vars

\* Every path that issues a ticket, asked for services the registry allows
\* and for one it does not: GET and POST /login, the github callback (answered
\* in full, or not at all), /proxy once a /serviceValidate with a pgtUrl has
\* minted a proxy-granting ticket, and the warn step.
NextIssuing ==
    \/ \E s \in ServiceParams, g \in BOOLEAN :
          LoginGet(s, FALSE, g) /\ Len(tickets') <= MaxValidated
    \/ \E s \in ServiceParams, w \in BOOLEAN :
          LoginPost(s, "alice", "pw1", w) /\ Len(tickets') <= MaxValidated
    \/ \E s \in {"svcA", "svcX"}, accepted \in BOOLEAN,
          h \in {<<"json_ok", "json_ok", "none">>, <<"none", "none", "none">>} :
          /\ OAuthGet(<<"github", s>>, "code", h, "carol", accepted)
          /\ Len(tickets') <= MaxValidated
          /\ Cardinality(accounts') <= MaxFederated
    \/ \E t \in Presented, p \in {None, "https-ok"} :
          ValidationGet("serviceValidate", "svcA", t, p, FALSE) /\ Len(tickets') <= MaxValidated
    \/ \E t \in Presented, s \in ServiceParams :
          ProxyGet(t, s) /\ Len(tickets') <= MaxValidated
    \/ \E s \in ServiceParams, t \in Presented : WarnGet(s, t)

SpecIssuing == InitOAuth /\ [][NextIssuing]_vars

\* The requests of a federated-login flow: scheme, Host header, path of the
\* login view (mounted at the root or under /cas/, with or without a trailing
\* slash) and service.
Schemes == {"http", "https"}
Hosts == {"cas.example", "cas.example:8443"}
LoginPaths == {<<"/", "login">>, <<"/", "login/">>, <<"/cas/", "login">>, <<"/cas/", "login/">>}
FlowServices == {None, "https://app.example/cb", "http://intranet/app"}

\* Federated-login flows: the login page, then the provider's callback.
NextFlow ==
    \/ \E scheme \in Schemes, host \in Hosts, path \in LoginPaths, s \in FlowServices,
          prov \in Providers : LoginPage(scheme, host, path, s, prov)
    \/ OAuthExchange

SpecFlow == InitOAuth /\ [][NextFlow]_vars

\* Every endpoint side by side, from a store that holds one proxy-granting
\* ticket: the validation endpoints are sent a verified pgtUrl or none, and a
\* validation may add the proxy-granting ticket it mints to a full store.
NextPgt ==
    \/ LoginGet("svcA", FALSE, FALSE) /\ Len(tickets') <= MaxValidated
    \/ LoginPost("svcA", "alice", "pw1", FALSE) /\ Len(tickets') <= MaxValidated
    \/ LogoutGet(None)
    \/ \E t \in Presented : WarnGet("svcA", t)
    \/ ProxyGet(Token(PGTPrefix, Len(PgtStore)), "svcA") /\ Len(tickets') <= MaxValidated
    \/ /\ OAuthGet(<<"github", "svcA">>, "code", <<"json_ok", "json_ok", "none">>, "carol", TRUE)
       /\ Len(tickets') <= MaxValidated
       /\ Cardinality(accounts') <= MaxFederated
    \/ \E e \in ValidationEndpoints, t \in Presented, p \in {None, "https-ok"} :
          ValidationGet(e, "svcA", t, p, FALSE) /\ Len(tickets') <= MaxValidated + 1
    \/ \E b \in {Unparsable} \cup {SamlBody("ok", t) : t \in Presented} :
          SamlPost("svcA", b, TRUE)

SpecPgt == InitTickets /\ [][NextPgt]_vars

\* The ticket most recently added to the store, and its token.
Newest(store) == store[Len(store)]
NewestToken(store) == TokenOf(store, Len(store))
\* The step added exactly one ticket, row, to the store.
Issued(row) == tickets' = Append(tickets, row)

\* C5: a GET /login with renew=true always ends in the login form, for every
\* gateway and service value and with or without a session; it creates no
\* ticket, redirects nowhere and leaves the session alone.
C5_RenewAlwaysChallenges ==
    [][\A s \in ServiceParams, g \in BOOLEAN :
         LoginGet(s, TRUE, g) =>
            /\ last'.resp = RenderForm("")
            /\ tickets' = tickets
            /\ session' = session]_vars

\* C5 witness: renew with gateway, a service and an active session showed the form.
C5_Witness ==
    /\ last.view = "login_get" /\ last.req.renew /\ last.req.gateway
    /\ last.req.service \in ValidServices
    /\ is_authenticated(session)
    /\ last.resp.kind = "form"

\* C6: a GET /login with gateway=true, no renew, service=S and no session
\* redirects to S with no ticket parameter, creates no ticket, starts no session.
C6_GatewayAnonymousRedirects ==
    [][\A s \in Services :
         (~is_authenticated(session) /\ LoginGet(s, FALSE, TRUE)) =>
            /\ last'.resp = redirect(s, None, NoTicket)
            /\ tickets' = tickets
            /\ session' = Anonymous]_vars

\* C6 witness: an anonymous gateway request was redirected to its service bare.
C6_Witness ==
    /\ last.view = "login_get" /\ last.req.gateway /\ ~last.req.renew
    /\ last.req.service = "svcA"
    /\ ~is_authenticated(session)
    /\ last.resp = redirect("svcA", None, NoTicket)

\* C7 as claimed: a GET /login without renew, with any service S present and a
\* session without the warn flag creates exactly one ServiceTicket for S, owned
\* by the session's user, primary=false, and redirects to S with its token.
C7_AnyServiceIssues ==
    [][\A s \in Services, g \in BOOLEAN :
         (is_authenticated(session) /\ ~session.warn /\ LoginGet(s, FALSE, g)) =>
            /\ Issued(NewTicket(STPrefix, s, session.user, FALSE, 0))
            /\ last'.resp = redirect(s, None, NewestToken(tickets'))]_vars

\* C7 amended: the same for every service S the service registry allows.
C7_AllowedServiceIssues ==
    [][\A s \in ValidServices, g \in BOOLEAN :
         (is_authenticated(session) /\ ~session.warn /\ LoginGet(s, FALSE, g)) =>
            /\ Issued(NewTicket(STPrefix, s, session.user, FALSE, 0))
            /\ last'.resp = redirect(s, None, NewestToken(tickets'))]_vars

\* C7 witness: bob's session got a non-primary ticket for svcA without gateway.
C7_Witness ==
    /\ last.view = "login_get" /\ ~last.req.gateway /\ ~last.req.renew
    /\ last.req.service = "svcA"
    /\ session = [user |-> "bob", warn |-> FALSE]
    /\ Len(tickets) > 0
    /\ Newest(tickets) = NewTicket(STPrefix, "svcA", "bob", FALSE, 0)
    /\ last.resp = redirect("svcA", None, NewestToken(tickets))

\* C8: while the session carries the warn flag, every ticket GET /login issues
\* is handed to the warn step (with the service and the pending ticket), and no
\* GET /login redirects to a service with a ticket attached.
C8_WarnInterposes ==
    [][\A s \in ServiceParams, r \in BOOLEAN, g \in BOOLEAN :
         (session.warn /\ LoginGet(s, r, g)) =>
            /\ tickets' # tickets =>
                 last'.resp = redirect(CasWarn, LoginService(s), NewestToken(tickets'))
            /\ ~(last'.resp.kind = "redirect" /\ last'.resp.to \in Services
                 /\ last'.resp.ticket # NoTicket)]_vars

\* C8 witness: a gateway request of a warned session was sent to the warn step.
C8_Witness ==
    /\ last.view = "login_get" /\ last.req.gateway
    /\ session.warn
    /\ Len(tickets) > 0
    /\ last.resp = redirect(CasWarn, "svcA", NewestToken(tickets))

\* C9 as claimed, its session half: a POST /login with valid credentials
\* leaves a session of the authenticated user whose warn flag is set iff warn
\* was requested.
C9_WarnIffRequested ==
    [][\A s \in ServiceParams, c \in Credentials, w \in BOOLEAN :
         (authenticate(c[1], c[2]) # NoUser /\ LoginPost(s, c[1], c[2], w)) =>
            /\ session'.user = authenticate(c[1], c[2])
            /\ session'.warn = w]_vars

\* C10: a POST /login with invalid credentials changes neither the ticket
\* store nor the session and shows the form again with its error.
C10_InvalidLoginChangesNothing ==
    [][\A s \in ServiceParams, c \in Credentials, w \in BOOLEAN :
         (authenticate(c[1], c[2]) = NoUser /\ LoginPost(s, c[1], c[2], w)) =>
            /\ tickets' = tickets
            /\ session' = session
            /\ last'.resp = RenderForm("invalid")]_vars

\* C10 witness: a failed login against a warned session with a ticket in the
\* store left both as they were.
C10_Witness ==
    /\ last.view = "login_post" /\ last.resp = RenderForm("invalid")
    /\ last.req.warn = FALSE /\ last.req.service = "svcA"
    /\ session = [user |-> "alice", warn |-> TRUE]
    /\ Len(tickets) > 0

\* The ticket half of C9: a POST /login with valid credentials and a service
\* the registry allows creates one primary ServiceTicket for that service and
\* user and redirects to the service with it; with no service it creates no
\* ticket and redirects to the login view, which shows the status.
C9_TicketForAllowedService ==
    [][\A s \in ValidServices \cup {None}, c \in Credentials, w \in BOOLEAN :
         (authenticate(c[1], c[2]) # NoUser /\ LoginPost(s, c[1], c[2], w)) =>
            IF s = None
            THEN tickets' = tickets /\ last'.resp = redirect(CasLogin, None, NoTicket)
            ELSE /\ Issued(NewTicket(STPrefix, s, authenticate(c[1], c[2]), TRUE, 0))
                 /\ last'.resp = redirect(s, None, NewestToken(tickets'))]_vars

\* ------------------------------------------------- the validation claims
\* The ticket of table kind a token names in the store, 0 for none.
Named(kind, t) == Lookup(tickets, kind, t)

\* The validation the last request made succeeded.
Succeeded(l) ==
    IF l.view = "validate" THEN l.resp.body # "no\n\n" ELSE l.resp.ticket # NoTicket

\* A service ticket that is neither consumed nor expired, presented with the
\* service it was issued for.
Presentable_ST(t, s) ==
    /\ Named(STPrefix, t) # 0
    /\ ~tickets[Named(STPrefix, t)].consumed
    /\ ~tickets[Named(STPrefix, t)].expired
    /\ tickets[Named(STPrefix, t)].service = s

\* C2: /validate answers exactly "yes\n<username>\n", with the user who owns
\* the presented ServiceTicket, when the ticket is an unconsumed, unexpired
\* ServiceTicket of the requesting service (and primary if renew is asked),
\* and exactly "no\n\n" otherwise, a different service included; the response
\* carries nothing else and no proxy-granting ticket is minted.
C2_ValidatePlainText ==
    [][last'.view = "validate" =>
         \A s \in ValidServices \cup {None}, t \in Presented :
            ValidationGet("validate", s, t, last'.req.pgtUrl, last'.req.renew) =>
            /\ last'.resp =
                 [kind |-> "text",
                  body |-> IF Presentable_ST(t, s)
                              /\ (last'.req.renew => tickets[Named(STPrefix, t)].primary)
                           THEN "yes\n" \o tickets[Named(STPrefix, t)].user \o "\n"
                           ELSE "no\n\n"]
            /\ Len(tickets') = Len(tickets)]_vars

\* C2 witness: alice's ticket for svcB, presented to /validate with svcA, was
\* answered "no\n\n" for a service mismatch.
C2_Witness ==
    /\ last.view = "validate"
    /\ last.resp = [kind |-> "text", body |-> "no\n\n"]
    /\ last.error = "ServiceMismatch"
    /\ Len(tickets) = 3
    /\ tickets[3].user = "alice" /\ tickets[3].service = "svcB"
    /\ tickets[3].consumed

\* The success case of C2: alice's ticket was answered "yes\nalice\n".
C2_WitnessYes ==
    /\ last.view = "validate"
    /\ last.resp = [kind |-> "text", body |-> "yes\nalice\n"]

\* C3: on /validate, /serviceValidate and /proxyValidate, a request with
\* renew=true for an otherwise valid ServiceTicket succeeds if the ticket is
\* primary and fails with StaleCredentialsRequired if it is not (/validate
\* then answers "no\n\n"); no renew validation of a ServiceTicket succeeds for
\* a ticket that is not primary.
C3_RenewNeedsPrimary ==
    [][(last'.view \in ValidationEndpoints /\ last'.req.renew) =>
         \A s \in ValidServices \cup {None}, t \in Presented :
         (t[1] = STPrefix /\ ValidationGet(last'.view, s, t, last'.req.pgtUrl, TRUE)) =>
            /\ Presentable_ST(t, s) =>
                 IF tickets[Named(STPrefix, t)].primary
                 THEN Succeeded(last') /\ last'.error = ""
                 ELSE /\ ~Succeeded(last')
                      /\ last'.error = "StaleCredentialsRequired"
                      /\ last'.view = "validate" => last'.resp.body = "no\n\n"
            /\ Succeeded(last') => tickets[Named(STPrefix, t)].primary]_vars

\* C3 witness: a renew validation on /proxyValidate of a ticket issued from
\* the session failed for want of primary credentials.
C3_Witness ==
    /\ last.view = "proxyValidate" /\ last.req.renew
    /\ last.error = "StaleCredentialsRequired"
    /\ Len(tickets) = 3 /\ ~tickets[3].primary /\ tickets[3].kind = STPrefix

\* The success case of C3: a renew validation of a primary ticket succeeded.
C3_WitnessPrimary ==
    /\ last.view = "serviceValidate" /\ last.req.renew
    /\ Succeeded(last)
    /\ Len(tickets) = 3 /\ tickets[3].primary /\ tickets[3].consumed

Reached(n) ==
    {w \in Workers :
        /\ workers[w].pc = "done"
        /\ workers[w].ticket = TokenOf(tickets, n)
        /\ tickets[n].kind = STPrefix \/ workers[w].endpoint = "proxyValidate"}

\* Those of them that presented the service the ticket was issued for.
Matching(n) == {w \in Reached(n) : workers[w].service = tickets[n].service}

\* The requests that were answered with success.
Winners(n) ==
    {w \in Reached(n) :
        IF workers[w].endpoint = "validate" THEN workers[w].resp.body # "no\n\n"
        ELSE workers[w].resp.ticket # NoTicket}

\* C1: for every ServiceTicket or ProxyTicket and every interleaving of the
\* validation requests that present its token, at most one request is answered
\* with success; every request with the matching service either succeeds or
\* fails as already consumed; and when all requests that reached the ticket
\* had the matching service, exactly one of them succeeded.
C1_ExactlyOneValidationWins ==
    \A n \in (Len(PgtStore) + 1)..Len(tickets) :
        tickets[n].kind \in {STPrefix, PTPrefix} =>
            /\ Cardinality(Winners(n)) <= 1
            /\ \A w \in Matching(n) \ Winners(n) : workers[w].error = "TicketAlreadyConsumed"
            /\ (Reached(n) # {} /\ Matching(n) = Reached(n))
                 => Cardinality(Winners(n)) = 1

\* C1 witness: two requests for the same proxy ticket with its service were in
\* flight together; one succeeded and the other failed as already consumed.
C1_Witness ==
    /\ Len(tickets) = 3 /\ tickets[3].kind = PTPrefix
    /\ Matching(3) = Workers
    /\ \E w \in Workers : workers[w].raced /\ w \in Winners(3)
    /\ \E w \in Workers : workers[w].error = "TicketAlreadyConsumed"

\* ------------------------------------------------------ federated login
\* C11: a federated login that issues a ticket establishes the session of the
\* synthesized user and issues a ServiceTicket of that user with primary=true
\* for the requested service, and redirects to the service with it.
C11_FederatedTicketIsPrimary ==
    [][(last'.view = "oauth" /\ Len(tickets') > Len(tickets)) =>
          /\ Newest(tickets').kind = STPrefix
          /\ Newest(tickets').service = last'.req.v[2]
          /\ Newest(tickets').user = session'.user
          /\ last'.resp = redirect(last'.req.v[2], None, NewestToken(tickets'))
          /\ Newest(tickets').primary]_vars

\* A call to the provider failed: the request raised, the body was empty, or
\* the answer lacks what the adapter needs (no access token, no profile field).
CallFailed(r) == r \in {"none", "empty", "json_err", "text_err"}

\* The request reached an adapter and one of its steps failed: the code
\* parameter is absent or one of the calls it made failed.
AdapterStepFailed(req) ==
    /\ Len(req.v) = 2 /\ req.v[1] \in Providers
    /\ \/ req.code = None
       \/ \E i \in 1..CallsMade(req.v[1], req.code, req.http) : CallFailed(req.http[i])

\* C12: a federated-login callback in which an adapter step failed ends in the
\* adapter's plaintext failure response, and leaves the tickets and the
\* session as they were.
C12_AdapterFailureIsPlainText ==
    [][(last'.view = "oauth" /\ AdapterStepFailed(last'.req)) =>
          /\ last'.resp = PlainText(FailureMessage[last'.req.v[1]])
          /\ tickets' = tickets
          /\ session' = session]_vars

\* ---------------------------------------------------- proxy authentication
\* C13: /proxy with an unexpired ProxyGrantingTicket succeeds however many
\* proxy tickets that PGT has issued: it adds one ProxyTicket with a token no
\* other ticket has, for the target service and the PGT's user, answers with
\* its token, and leaves the PGT and every other ticket as they were.  A
\* /proxyValidate of a ProxyTicket succeeds exactly when that ticket is
\* unconsumed, unexpired and of the requesting service, whatever the state of
\* the other tickets; it consumes that ticket and no other.
C13_PgtReusedProxyTicketsSingleUse ==
    [][/\ last'.view = "proxy" =>
            \A t \in Presented :
               (/\ Named(PGTPrefix, t) # 0
                /\ ~tickets[Named(PGTPrefix, t)].expired
                /\ ProxyGet(t, last'.req.targetService)) =>
                  /\ Len(tickets') = Len(tickets) + 1
                  /\ \A n \in 1..Len(tickets) :
                        tickets'[n] = tickets[n] /\ TokenOf(tickets, n) # NewestToken(tickets')
                  /\ Newest(tickets') =
                        NewTicket(PTPrefix, last'.req.targetService,
                                  tickets[Named(PGTPrefix, t)].user, FALSE, Named(PGTPrefix, t))
                  /\ last'.resp.ticket = NewestToken(tickets')
                  /\ last'.error = ""
       /\ last'.view = "proxyValidate" =>
            \A s \in ValidServices, t \in Presented :
               (Named(PTPrefix, t) # 0 /\ ValidationGet("proxyValidate", s, t, last'.req.pgtUrl, FALSE)) =>
                  /\ Succeeded(last') <=>
                        /\ ~tickets[Named(PTPrefix, t)].consumed
                        /\ ~tickets[Named(PTPrefix, t)].expired
                        /\ tickets[Named(PTPrefix, t)].service = s
                  /\ tickets'[Named(PTPrefix, t)].consumed
                  /\ \A n \in 1..Len(tickets) : n # Named(PTPrefix, t) => tickets'[n] = tickets[n]]_vars

\* C13 witness: the PGT issued two proxy tickets and is still unconsumed; the
\* first was validated with a pgtUrl (which minted the PGT it granted) and the
\* second has just been validated successfully as well.
C13_Witness ==
    /\ Len(tickets) = 5
    /\ tickets[3].kind = PTPrefix /\ tickets[3].parent = 2 /\ tickets[3].consumed
    /\ tickets[4].kind = PTPrefix /\ tickets[4].parent = 2 /\ tickets[4].consumed
    /\ tickets[5].kind = PGTPrefix /\ tickets[5].parent = 3
    /\ ~tickets[2].consumed /\ ~tickets[2].expired
    /\ last.view = "proxyValidate" /\ last.resp.ticket = Token(PTPrefix, 4)

\* The service of the proxy-granting ticket that issued proxy ticket n, and
\* the proxy ticket that PGT was granted by (0 when a service ticket granted it).
ProxyingService(n) == tickets[tickets[n].parent].service
GrantingProxyTicket(n) ==
    LET m == tickets[tickets[n].parent].parent
    IN  IF tickets[m].kind = PTPrefix THEN m ELSE 0

\* C14: a successful /proxyValidate of a ProxyTicket returns the chain of the
\* proxying services, most recent first: the service of the PGT that issued
\* the ticket, then the chain of the proxy ticket that granted that PGT, which
\* is empty when a ServiceTicket granted it.  A /proxyValidate of a
\* ServiceTicket returns no chain.
C14_ProxyChainMostRecentFirst ==
    [][last'.view = "proxyValidate" =>
          \A s \in ValidServices, t \in Presented :
             (ValidationGet("proxyValidate", s, t, last'.req.pgtUrl, FALSE) /\ Succeeded(last')) =>
                IF t[1] = STPrefix THEN last'.resp.proxies = <<>>
                ELSE LET n == Named(PTPrefix, t)
                         m == GrantingProxyTicket(n)
                     IN  IF m = 0 THEN last'.resp.proxies = <<ProxyingService(n)>>
                         ELSE /\ Len(last'.resp.proxies) >= 2
                              /\ last'.resp.proxies[1] = ProxyingService(n)
                              /\ last'.resp.proxies[2] = ProxyingService(m)
                              /\ GrantingProxyTicket(m) = 0 => Len(last'.resp.proxies) = 2]_vars

\* C14 witness: svcA proxied for alice, svcB validated the proxy ticket with a
\* pgtUrl and proxied in turn; the validation of its proxy ticket returned the
\* chain [svcB, svcA].
C14_Witness ==
    /\ last.view = "proxyValidate"
    /\ last.resp.ticket = Token(PTPrefix, 5)
    /\ last.resp.proxies = <<"svcB", "svcA">>
    /\ tickets[2].service = "svcA" /\ tickets[3].parent = 2
    /\ tickets[4].service = "svcB" /\ tickets[4].parent = 3 /\ tickets[5].parent = 4

\* The other case of C14: a service ticket validated on /proxyValidate
\* carries no chain.
C14_WitnessServiceTicket ==
    /\ last.view = "proxyValidate"
    /\ last.resp.ticket = Token(STPrefix, 3)
    /\ last.resp.proxies = <<>>

\* ------------------------------------------------------ the proxy callback
\* C15: a /serviceValidate or /proxyValidate with a pgtUrl that uses an
\* insecure transport, or whose callback does not answer with success, creates
\* no ticket and names no proxy-granting ticket in its response; and if the
\* presented ticket is unconsumed, unexpired and of the requesting service,
\* the validation succeeds and the ticket is consumed.
C15_FailedCallbackStillValidates ==
    [][(/\ last'.view \in {"serviceValidate", "proxyValidate"}
        /\ last'.req.pgtUrl \in {"http", "https-down"}) =>
          \A s \in ValidServices, t \in Presented :
             ValidationGet(last'.view, s, t, last'.req.pgtUrl, FALSE) =>
                LET n == Named(TableOf(last'.view, t), t)
                IN  /\ Len(tickets') = Len(tickets)
                    /\ last'.resp.pgt = NoTicket
                    /\ (/\ n # 0
                        /\ ~tickets[n].consumed /\ ~tickets[n].expired
                        /\ tickets[n].service = s) =>
                          /\ last'.resp.ticket = t
                          /\ last'.error = ""
                          /\ tickets'[n].consumed]_vars

\* C15 witness: a service ticket was validated on /serviceValidate with a
\* plain-http pgtUrl: success, ticket consumed, no proxy-granting ticket.
C15_Witness ==
    /\ last.view = "serviceValidate" /\ last.req.pgtUrl = "http"
    /\ last.resp.ticket = Token(STPrefix, 3) /\ last.resp.pgt = NoTicket
    /\ Len(tickets) = 3 /\ tickets[3].consumed

\* The other case of C15: a proxy ticket validated on /proxyValidate with a
\* pgtUrl whose callback did not answer with success.
C15_WitnessUnanswered ==
    /\ last.view = "proxyValidate" /\ last.req.pgtUrl = "https-down"
    /\ last.resp.ticket = Token(PTPrefix, 3) /\ last.resp.pgt = NoTicket
    /\ Len(tickets) = 3 /\ tickets[3].consumed

\* ------------------------------------------------- ticket kind and endpoint
\* The kinds of ticket an endpoint's validation can succeed for.
AcceptedKinds(endpoint) ==
    IF endpoint = "proxyValidate" THEN {STPrefix, PTPrefix}
    ELSE IF endpoint = "proxy" THEN {PGTPrefix}
    ELSE {STPrefix}

\* What a request presenting token t to an endpoint may do: succeed only if t
\* is the token of a ticket of a kind the endpoint accepts, and consume no
\* ticket other than the one t is the token of.
KindDecides(endpoint, t) ==
    /\ Succeeded(last') =>
          /\ t[1] \in AcceptedKinds(endpoint)
          /\ t[2] \in 1..Len(tickets) /\ tickets[t[2]].kind = t[1]
          /\ endpoint \notin {"proxy", "validate"} => last'.resp.ticket = t
    /\ \A n \in 1..Len(tickets) :
          tickets'[n] # tickets[n] =>
             /\ endpoint # "proxy"
             /\ n = t[2] /\ tickets[n].kind = t[1]
             /\ tickets[n].kind = TableOf(endpoint, t)

\* C16: /validate, /serviceValidate and /samlValidate succeed only for the
\* token of a ServiceTicket, /proxyValidate only for that of a ServiceTicket
\* or a ProxyTicket, /proxy only for that of a ProxyGrantingTicket; on
\* /proxyValidate an unconsumed, unexpired ticket of the requesting service
\* validates as a ProxyTicket exactly when its token has the ProxyTicket prefix
\* and as a ServiceTicket otherwise; and a token whose prefix is not that of
\* the ticket with its random part changes no ticket.
C16_KindDecidesEndpoint ==
    [][/\ last'.view \in ValidationEndpoints =>
             \A s \in {None, "svcA"}, t \in AnyToken :
                ValidationGet(last'.view, s, t, None, FALSE) =>
                   /\ KindDecides(last'.view, t)
                   /\ (/\ last'.view = "proxyValidate"
                       /\ t[1] \in {STPrefix, PTPrefix}
                       /\ Named(t[1], t) # 0
                       /\ ~tickets[t[2]].consumed /\ ~tickets[t[2]].expired
                       /\ tickets[t[2]].service = s) => Succeeded(last')
       /\ last'.view = "samlValidate" =>
             \A g \in SamlTargets, b \in SamlBodies :
                SamlPost(g, b, last'.req.defused_etree) => KindDecides("samlValidate", ArtifactOf(b))
       /\ last'.view = "proxy" =>
             \A s \in {None, "svcA"}, t \in AnyToken :
                ProxyGet(t, s) => KindDecides("proxy", t)]_vars

\* C16 witness: /proxyValidate validated a ProxyTicket presented under its own
\* prefix after the same random part under the ServiceTicket prefix was refused
\* without consuming it.
C16_Witness ==
    /\ last.view = "proxyValidate" /\ last.resp.ticket = Token(PTPrefix, 3)
    /\ Len(tickets) = 3 /\ tickets[3].kind = PTPrefix /\ tickets[3].consumed

\* C16: /samlValidate refused the token of a ProxyGrantingTicket, which stays
\* as it was.
C16_WitnessSaml ==
    /\ last.view = "samlValidate" /\ last.req.body = "ok" /\ last.req.defused_etree
    /\ last.error = "TicketNotFound" /\ last.resp.ticket = NoTicket
    /\ Len(tickets) = 2 /\ ~tickets[2].consumed

\* C16: /proxy issued a ProxyTicket for a ProxyGrantingTicket.
C16_WitnessProxy ==
    /\ last.view = "proxy" /\ last.resp.ticket = Token(PTPrefix, 3)
    /\ tickets[2].kind = PGTPrefix /\ ~tickets[2].consumed

\* ------------------------------------------------- always a response
ProtocolEndpoints == ValidationEndpoints \cup {"proxy", "samlValidate"}

\* The format of an endpoint's responses: text/plain for /validate, the SAML
\* envelope for /samlValidate, the CAS XML fragment for the others.
ResponseFormat(endpoint) ==
    IF endpoint = "validate" THEN "text"
    ELSE IF endpoint = "samlValidate" THEN "saml" ELSE "xml"

\* C17: every request to a protocol endpoint ends in a response of the
\* endpoint's format, never in an unhandled fault; a request whose validation
\* call returned an error ends in a failure response; and a /samlValidate
\* whose body does not parse or holds no assertion artifact ends in a failure
\* response.
C17_AlwaysAResponse ==
    [][last'.view \in ProtocolEndpoints =>
          /\ last'.resp.kind = ResponseFormat(last'.view)
          /\ last'.error # "" => ~Succeeded(last')
          /\ last'.view = "samlValidate" =>
                \A g \in SamlTargets, b \in {Unparsable, NoArtifact} :
                   SamlPost(g, b, last'.req.defused_etree) =>
                      /\ last'.resp.kind = "saml"
                      /\ last'.resp.ticket = NoTicket
                      /\ last'.resp.error # ""]_vars

\* ----------------------------------------------------------------- logout
\* C18: GET /logout leaves no SSO session and creates no ticket, and redirects
\* to the given service iff a service is given and the follow-logout-URL
\* policy is enabled, to the login view otherwise; a client without a session
\* gets no ticket from GET /login without renew (the form, or with gateway a
\* redirect with no ticket); and a client without a session gets one only by a
\* POST /login whose credentials were accepted.
C18_LogoutEndsTheSession ==
    [][/\ last'.view = "logout" =>
             /\ ~is_authenticated(session') /\ ~warn_user(session')
             /\ tickets' = tickets
             /\ last'.resp.ticket = NoTicket
             /\ (Truthy(last'.req.service) /\ settings.FOLLOW_LOGOUT_URL)
                   => last'.resp = redirect(last'.req.service, None, NoTicket)
             /\ ~(Truthy(last'.req.service) /\ settings.FOLLOW_LOGOUT_URL)
                   => last'.resp = redirect(CasLogin, None, NoTicket)
       /\ (~is_authenticated(session) /\ last'.view = "login_get" /\ ~last'.req.renew) =>
             /\ tickets' = tickets
             /\ last'.resp.ticket = NoTicket
             /\ \/ last'.resp = RenderForm("")
                \/ last'.req.gateway /\ last'.resp.kind = "redirect"
             /\ ~is_authenticated(session')
       /\ (~is_authenticated(session) /\ is_authenticated(session')) =>
             /\ last'.view = "login_post"
             /\ last'.resp # RenderForm("invalid")
             /\ \E c \in Credentials : session'.user = authenticate(c[1], c[2])]_vars

\* C18 witness: a client that had logged in and been issued a ticket has logged
\* out with a service under the follow-logout-URL policy.
C18_Witness ==
    /\ last.view = "logout" /\ last.req.service = "svcA" /\ settings.FOLLOW_LOGOUT_URL
    /\ last.resp = redirect("svcA", None, NoTicket)
    /\ Len(tickets) >= 1 /\ ~is_authenticated(session)

\* C18: after that logout, GET /login for a service was answered by the form.
C18_WitnessChallenged ==
    /\ last.view = "login_get" /\ last.req.service = "svcA" /\ ~last.req.renew
    /\ ~last.req.gateway /\ last.resp = RenderForm("")
    /\ Len(tickets) >= 1 /\ ~is_authenticated(session)

\* C18: a logout with a service while the policy is disabled went to login.
C18_WitnessNoFollow ==
    /\ last.view = "logout" /\ last.req.service = "svcA" /\ ~settings.FOLLOW_LOGOUT_URL
    /\ last.resp = redirect(CasLogin, None, NoTicket) /\ Len(tickets) >= 1

\* ----------------------------------------------------------------- expiry
\* What validating token t for a service must do when t names an expired
\* ticket of the kind looked up: fail, create nothing, and name the expiry as
\* the error if the ticket had not been consumed.
ExpiredFails(kind, t, service) ==
    LET n == Named(kind, t)
    IN  (n # 0 /\ tickets[n].expired) =>
           /\ ~Succeeded(last')
           /\ Len(tickets') = Len(tickets)
           /\ (~tickets[n].consumed /\ Truthy(service)) => last'.error = "TicketExpired"

\* C19: validating an expired ServiceTicket or ProxyTicket fails on every
\* validation endpoint, with TicketExpired if the ticket was never consumed;
\* /proxy with a token that names no ProxyGrantingTicket or an expired one
\* issues no ProxyTicket, changes no ticket, and fails with
\* PgtInvalidOrExpired when both parameters are given.
C19_NothingSucceedsPastExpiry ==
    [][/\ last'.view \in ValidationEndpoints =>
             \A s \in {None, "svcA"}, t \in AnyToken :
                ValidationGet(last'.view, s, t, None, FALSE) =>
                   ExpiredFails(TableOf(last'.view, t), t, s)
       /\ last'.view = "samlValidate" =>
             \A g \in SamlTargets \ {"svcH"}, b \in SamlBodies :
                SamlPost(g, b, last'.req.defused_etree) =>
                   (last'.req.defused_etree => ExpiredFails(STPrefix, ArtifactOf(b), g))
       /\ last'.view = "proxy" =>
             \A s \in {None, "svcA"}, t \in AnyToken :
                ProxyGet(t, s) =>
                   ((Named(PGTPrefix, t) = 0 \/ tickets[Named(PGTPrefix, t)].expired) =>
                       /\ last'.resp.ticket = NoTicket
                       /\ tickets' = tickets
                       /\ (t # NoTicket /\ Truthy(s)) => last'.error = "PgtInvalidOrExpired")]_vars

\* C19 witness: a ticket that had never been consumed was validated after its
\* expiry and refused as expired.
C19_Witness ==
    /\ last.view \in ValidationEndpoints /\ last.error = "TicketExpired"
    /\ ~Succeeded(last)
    /\ Len(tickets) = 3 /\ tickets[3].expired

\* C19: the ProxyGrantingTicket issued a ProxyTicket, expired, and was then
\* refused by /proxy.
C19_WitnessPgt ==
    /\ last.view = "proxy" /\ last.error = "PgtInvalidOrExpired"
    /\ last.resp.ticket = NoTicket
    /\ Len(tickets) = 3 /\ tickets[3].kind = PTPrefix /\ tickets[2].expired

\* ------------------------------------------------- gateway without a session
\* C20: every GET /login with renew not set and gateway set, from a client
\* without an SSO session, with or without a service parameter, ends in a
\* redirect that carries no ticket, creates no ticket, and never in the login
\* form.
C20_GatewayNeverChallenges ==
    [][(/\ last'.view = "login_get"
        /\ ~last'.req.renew /\ last'.req.gateway
        /\ ~is_authenticated(session)) =>
          /\ last'.resp.kind = "redirect"
          /\ last'.resp.kind # "form"
          /\ last'.resp.ticket = NoTicket
          /\ tickets' = tickets]_vars

\* ------------------------------------------------- the service registry
\* C21: every ticket in the store is for a service the registry allows,
\* whichever path issued it, and a warn step for a service the registry does
\* not allow ends in a redirect to the login view that carries no ticket.
C21_OnlyAllowedServicesGetTickets ==
    /\ \A n \in 1..Len(tickets) : is_valid_service(tickets[n].service)
    /\ (last.view = "warn" /\ ~is_valid_service(last.req.service)) =>
          last.resp = redirect(CasLogin, None, NoTicket)
    /\ (last.view \in {"login_get", "login_post", "oauth"} /\ last.resp.ticket # NoTicket) =>
          /\ Len(tickets) >= 1
          /\ is_valid_service(tickets[last.resp.ticket[2]].service)
          /\ last.resp.kind = "redirect"
          /\ last.resp.to = CasWarn \/ last.resp.to = tickets[last.resp.ticket[2]].service

\* C21 witness: a client with a session and a ticket asked the warn step for a
\* service the registry does not allow and was sent to login.
C21_Witness ==
    /\ last.view = "warn" /\ last.req.service = "svcX"
    /\ is_authenticated(session) /\ Len(tickets) >= 1
    /\ last.resp = redirect(CasLogin, None, NoTicket)

\* C21: POST /login with accepted credentials for a disallowed service issued
\* nothing.
C21_WitnessPost ==
    /\ last.view = "login_post" /\ last.req.service = "svcX"
    /\ is_authenticated(session) /\ last.resp = Rejected /\ tickets = <<>>

\* C21: GET /login from a session for a disallowed service issued nothing.
C21_WitnessGet ==
    /\ last.view = "login_get" /\ last.req.service = "svcX" /\ ~last.req.gateway
    /\ is_authenticated(session) /\ last.resp = Rejected /\ tickets = <<>>

\* C21: the federated callback for a disallowed service issued nothing.
C21_WitnessFederated ==
    /\ last.view = "oauth" /\ last.req.v = <<"github", "svcX">>
    /\ session.user = "carol_github" /\ last.resp = Rejected /\ tickets = <<>>

\* C21: /proxy with a disallowed targetService issued nothing.
C21_WitnessProxy ==
    /\ last.view = "proxy" /\ last.req.targetService = "svcX"
    /\ last.error = "InvalidService" /\ last.resp.ticket = NoTicket
    /\ \E n \in 1..Len(tickets) : tickets[n].kind = PGTPrefix

\* ------------------------------------------------- the federated redirect URI
\* C22: in a federated-login flow the redirect URI the adapter sends in its
\* code-for-token exchange is the redirect URI of the authorization URL the
\* login page built for the same provider and service, whatever the scheme,
\* host, path of the login view and service.
C22_SameRedirectUri ==
    (last.view = "oauth_exchange" /\ last.exchange_uri # None) =>
        last.exchange_uri = last.authorize_uri

\* ------------------------------------------- where proxy-granting tickets come from
\* The number of proxy-granting tickets in a store.
PgtCount(store) == Cardinality({n \in 1..Len(store) : store[n].kind = PGTPrefix})

\* C23: the number of proxy-granting tickets never decreases, and a request
\* that increases it is a /serviceValidate or /proxyValidate that carried a
\* pgtUrl and validated its ticket; it adds exactly one, the one its response
\* names. No /validate, /samlValidate, /login, /logout, /warn, /proxy or
\* federated callback changes the number.
C23_OnlyValidationWithPgtUrlMints ==
    [][/\ PgtCount(tickets') >= PgtCount(tickets)
       /\ PgtCount(tickets') > PgtCount(tickets) =>
             /\ last'.view \in {"serviceValidate", "proxyValidate"}
             /\ Truthy(last'.req.pgtUrl)
             /\ last'.error = "" /\ last'.resp.ticket # NoTicket
             /\ PgtCount(tickets') = PgtCount(tickets) + 1
             /\ last'.resp.pgt = Token(PGTPrefix, Len(tickets'))
       /\ (last'.view \in {"serviceValidate", "proxyValidate"} /\ last'.resp.pgt # NoTicket) =>
             PgtCount(tickets') > PgtCount(tickets)]_vars

\* C23 witness: /validate validated a ticket while the client sent a verified
\* pgtUrl, and the only proxy-granting ticket is still the first one.
C23_Witness ==
    /\ last.view = "validate" /\ last.req.pgtUrl = "https-ok"
    /\ last.resp.body = "yes\nalice\n"
    /\ Len(tickets) = 3 /\ tickets[3].consumed /\ PgtCount(tickets) = 1

\* C23: /samlValidate validated a ticket and minted nothing.
C23_WitnessSaml ==
    /\ last.view = "samlValidate" /\ last.resp.ticket = Token(STPrefix, 3)
    /\ Len(tickets) = 3 /\ tickets[3].consumed /\ PgtCount(tickets) = 1

\* C23: /serviceValidate with a pgtUrl minted a second proxy-granting ticket.
C23_WitnessMinted ==
    /\ last.view = "serviceValidate" /\ last.req.pgtUrl = "https-ok"
    /\ last.resp.pgt = Token(PGTPrefix, 4) /\ PgtCount(tickets) = 2

=============================================================================
